---- MODULE Spec2Model ----
(***************************************************************************)
(* ES2SQL: translation of an Elasticsearch query-DSL document into a SQL   *)
(* boolean expression (src/es2sql.py).                                     *)
(*                                                                         *)
(* A translation is two calls: ESObj(obj, rule) builds the tree of typed   *)
(* nodes, and to_sql() renders it.  The model keeps the input documents as *)
(* tagged JSON values, the built nodes as records carrying the fields the  *)
(* classes set, and the SQL text as TLA+ strings built by concatenation.   *)
(***************************************************************************)
EXTENDS Integers, Sequences, FiniteSets, TLC

VARIABLES rule, doc, pc, tree, exc, sql

vars == <<rule, doc, pc, tree, exc, sql>>

-----------------------------------------------------------------------------
(* Bounds of the model.                                                    *)

\* longest value list of a terms payload
MaxList == 2
\* most children under one connective key of a bool payload
MaxChildren == 2
\* number of times a built tree is rendered
MaxRenders == 2

-----------------------------------------------------------------------------
(* JSON values as json.loads delivers them, tagged by their Python type.   *)

JStr(s) == [t |-> "str", v |-> s]
JInt(i) == [t |-> "int", v |-> i]
JBool(b) == [t |-> "bool", v |-> b]
JFloat(s) == [t |-> "float", v |-> s]
JNull == [t |-> "NoneType", v |-> "None"]
JList(s) == [t |-> "list", v |-> s]
\* a dict is the sequence of its <<key, value>> items in insertion order
JDict(items) == [t |-> "dict", v |-> items]

\* `k in obj` for a dict
HasKey(obj, k) == \E i \in 1..Len(obj.v) : obj.v[i][1] = k
\* `obj[k]` for a dict that has the key
GetItem(obj, k) == obj.v[CHOOSE i \in 1..Len(obj.v) : obj.v[i][1] = k][2]

\* isinstance(x, list) and isinstance(x, int); bool is a subclass of int
IsList(x) == x.t = "list"
IsInt(x) == x.t \in {"int", "bool"}

\* str(x) of an integer, digit by digit
Digit(d) == SubSeq("0123456789", d + 1, d + 1)
RECURSIVE NatStr(_)
NatStr(n) == IF n < 10 THEN Digit(n) ELSE NatStr(n \div 10) \o Digit(n % 10)
IntStr(i) == IF i < 0 THEN "-" \o NatStr(0 - i) ELSE NatStr(i)

\* repr(x) of a scalar, as it appears inside the str() of a dict
PyRepr(x) ==
    CASE x.t = "str" -> "'" \o x.v \o "'"
      [] x.t = "int" -> IntStr(x.v)
      [] x.t = "bool" -> IF x.v THEN "True" ELSE "False"
      [] OTHER -> x.v

RECURSIVE ItemsRepr(_, _)
ItemsRepr(items, i) ==
    IF i > Len(items) THEN ""
    ELSE "'" \o items[i][1] \o "': " \o PyRepr(items[i][2])
         \o (IF i < Len(items) THEN ", " ELSE "")
         \o ItemsRepr(items, i + 1)

\* what an f-string puts in place of {x}: str(x)
PyStr(x) ==
    CASE x.t = "str" -> x.v
      [] x.t = "int" -> IntStr(x.v)
      [] x.t = "bool" -> IF x.v THEN "True" ELSE "False"
      [] x.t = "dict" -> "{" \o ItemsRepr(x.v, 1) \o "}"
      [] OTHER -> x.v

\* the number a value hashes and compares as when used as a dict key
IsNumber(x) == x.t \in {"int", "bool"}
NumberOf(x) == IF x.t = "bool" THEN (IF x.v THEN 1 ELSE 0) ELSE x.v
\* a == b for two hashable scalars: True == 1, and a str never equals a number
PyEq(a, b) ==
    IF IsNumber(a) /\ IsNumber(b) THEN NumberOf(a) = NumberOf(b)
    ELSE a.t = b.t /\ a.v = b.v
Hashable(x) == x.t \notin {"dict", "list"}

\* sep.join(parts)
RECURSIVE Join(_, _)
Join(sep, parts) ==
    IF parts = <<>> THEN ""
    ELSE IF Len(parts) = 1 THEN parts[1]
    ELSE parts[1] \o sep \o Join(sep, Tail(parts))

-----------------------------------------------------------------------------
(* ESRule: seven mappings keyed by field name.  A mapping is a function    *)
(* whose domain is the set of its keys; value_map holds, per field, a dict *)
(* as the sequence of its <<from, to>> items.                              *)

EmptyMap == [f \in {} |-> TRUE]

ESRule(ignore, field_map, value_map, eq2like, eq2reg, in2like, nn2empty) ==
    [ignore |-> ignore, field_map |-> field_map, value_map |-> value_map,
     eq2like |-> eq2like, eq2reg |-> eq2reg, in2like |-> in2like,
     nn2empty |-> nn2empty]

\* ESRule(): every mapping is the empty default
DefaultRule ==
    ESRule(EmptyMap, EmptyMap, EmptyMap, EmptyMap, EmptyMap, EmptyMap, EmptyMap)

\* the falsy value of each kind of rule entry: False, '' and the empty list/dict
NoFlag == FALSE
NoName == ""
NoItems == <<>>
\* `m and m.get(field, None)` taken as a condition; falsy is the falsy value
\* of the mapping's kind of entry
RuleSet(m, field, falsy) ==
    /\ DOMAIN m # {}
    /\ field \in DOMAIN m
    /\ m[field] # falsy

\* `v in d` and `d[v]` for a value_map dict d
MapHas(d, v) == \E i \in 1..Len(d) : PyEq(d[i][1], v)
MapGet(d, v) == d[CHOOSE i \in 1..Len(d) : PyEq(d[i][1], v)][2]

-----------------------------------------------------------------------------
(* The outcome of a constructor: the node it returns, or the exception it  *)
(* raises together with the exception's argument.                          *)

NoNode == [cls |-> "None"]
NoArg == [t |-> "none", v |-> "none"]
Return(node) == [exc |-> "none", node |-> node, arg |-> NoArg]
Raise(kind, arg) == [exc |-> kind, node |-> NoNode, arg |-> arg]

\* the first name of `order` that is a key of obj, 0 when none is
FirstKey(order, obj) ==
    IF \E i \in 1..Len(order) : HasKey(obj, order[i])
    THEN CHOOSE i \in 1..Len(order) :
            /\ HasKey(obj, order[i])
            /\ \A j \in 1..(i - 1) : ~HasKey(obj, order[j])
    ELSE 0

ClassKeys == <<"bool", "term", "terms", "exists", "nested">>
BoolKeys == <<"filter", "must", "must_not", "should">>

\* tp.title() for the five class keys
Title(tp) ==
    CASE tp = "bool" -> "Bool"
      [] tp = "term" -> "Term"
      [] tp = "terms" -> "Terms"
      [] tp = "exists" -> "Exists"
      [] tp = "nested" -> "Nested"

\* MapValue as d.get(v, v): a value without an image passes through
MutMapValue_PassThrough(d, v) ==
    IF ~Hashable(v) THEN Raise("TypeError", v)
    ELSE IF ~MapHas(d, v) THEN Return(v)
    ELSE Return(MapGet(d, v))

\* the value_map step of Term.parse on one value
MapValue(d, v) ==
    IF ~Hashable(v) THEN Raise("TypeError", v)
    ELSE IF ~MapHas(d, v) THEN Raise("KeyError", v)
    ELSE Return(MapGet(d, v))

\* [d[v] for v in value]: stops at the first value that raises
RECURSIVE MapValues(_, _, _, _)
MapValues(d, vs, i, acc) ==
    IF i > Len(vs) THEN Return(JList(acc))
    ELSE LET r == MapValue(d, vs[i])
         IN  IF r.exc # "none" THEN r
             ELSE MapValues(d, vs, i + 1, Append(acc, r.node))

\* the field_map step of Term.parse
FinalField(r, field) ==
    IF RuleSet(r.field_map, field, NoName) THEN r.field_map[field] ELSE field

\* the value_map step of Term.parse
FinalValue(r, field, value) ==
    IF RuleSet(r.value_map, field, NoItems)
    THEN IF IsList(value)
         THEN MapValues(r.value_map[field], value.v, 1, <<>>)
         ELSE MapValue(r.value_map[field], value)
    ELSE Return(value)

\* the value a term/terms payload gives for its field
RawValue(fv) ==
    IF IsList(fv) THEN Return(fv)
    ELSE IF fv.t # "dict" THEN Raise("TypeError", fv)
    ELSE IF ~HasKey(fv, "value") THEN Raise("KeyError", JStr("value"))
    ELSE Return(GetItem(fv, "value"))

\* Term(obj, rule) and Terms(obj, rule)
Term_parse(cls, obj, r) ==
    IF Len(obj.v) = 0 THEN Raise("IndexError", obj)
    ELSE LET field == obj.v[1][1]
             raw == RawValue(obj.v[1][2])
         IN  IF raw.exc # "none" THEN raw
             ELSE LET val == FinalValue(r, field, raw.node)
                  IN  IF val.exc # "none" THEN val
                      ELSE Return([cls |-> cls, field |-> field,
                                   value |-> val.node,
                                   final_field |-> FinalField(r, field)])

\* Exists(obj, rule)
Exists_parse(obj, r) ==
    IF ~HasKey(obj, "field") THEN Raise("KeyError", JStr("field"))
    ELSE Return([cls |-> "Exists", field |-> GetItem(obj, "field").v])

RECURSIVE get_class(_, _)
RECURSIVE ParseItems(_, _, _, _)
RECURSIVE Bool_parse(_, _)
RECURSIVE Nested_parse(_, _)
RECURSIVE ESObj_init(_, _)

\* ESObj.get_class: the class of the first class key present builds the node
get_class(obj, r) ==
    LET k == FirstKey(ClassKeys, obj)
    IN  IF k = 0 THEN Raise("Exception", obj)
        ELSE LET tp == ClassKeys[k]
                 payload == GetItem(obj, tp)
             IN  CASE tp = "bool" -> Bool_parse(payload, r)
                   [] tp \in {"term", "terms"} -> Term_parse(Title(tp), payload, r)
                   [] tp = "exists" -> Exists_parse(payload, r)
                   [] tp = "nested" -> Nested_parse(payload, r)

\* ParseItems as a best-effort loop: a child that raises is left out
RECURSIVE MutParseItems_SkipBad(_, _, _, _)
MutParseItems_SkipBad(items, r, i, acc) ==
    IF i > Len(items) THEN Return(acc)
    ELSE LET c == get_class(items[i], r)
         IN  IF c.exc # "none" THEN MutParseItems_SkipBad(items, r, i + 1, acc)
             ELSE MutParseItems_SkipBad(items, r, i + 1, Append(acc, c.node))

\* the loop of Bool.parse: appends each child, stops at the first that raises
ParseItems(items, r, i, acc) ==
    IF i > Len(items) THEN Return(acc)
    ELSE LET c == get_class(items[i], r)
         IN  IF c.exc # "none" THEN c
             ELSE ParseItems(items, r, i + 1, Append(acc, c.node))

\* Bool_parse taking the connective key that comes first in the payload
\* instead of the first in the order filter, must, must_not, should
MutBool_parse_FirstInserted(obj, r) ==
    LET ks == {i \in 1..Len(obj.v) :
                  \E j \in 1..Len(BoolKeys) : obj.v[i][1] = BoolKeys[j]}
    IN  IF ks = {} THEN Raise("Exception", obj)
        ELSE LET k == CHOOSE i \in ks : \A j \in ks : i <= j
                 cs == ParseItems(obj.v[k][2].v, r, 1, <<>>)
             IN  IF cs.exc # "none" THEN cs
                 ELSE Return([cls |-> "Bool", type |-> obj.v[k][1],
                              collection |-> cs.node])

\* Bool(obj, rule)
Bool_parse(obj, r) ==
    LET k == FirstKey(BoolKeys, obj)
    IN  IF k = 0 THEN Raise("Exception", obj)
        ELSE LET tp == BoolKeys[k]
                 cs == ParseItems(GetItem(obj, tp).v, r, 1, <<>>)
             IN  IF cs.exc # "none" THEN cs
                 ELSE Return([cls |-> "Bool", type |-> tp, collection |-> cs.node])

\* Nested(obj, rule)
Nested_parse(obj, r) ==
    IF ~HasKey(obj, "path") THEN Raise("KeyError", JStr("path"))
    ELSE IF ~HasKey(obj, "query") THEN Raise("KeyError", JStr("query"))
    ELSE LET q == ESObj_init(GetItem(obj, "query"), r)
         IN  IF q.exc # "none" THEN q
             ELSE Return([cls |-> "Nested", path |-> GetItem(obj, "path").v,
                          query |-> q.node])

\* ESObj(obj, rule)
ESObj_init(obj, r) ==
    LET c == get_class(obj, r)
    IN  IF c.exc # "none" THEN c
        ELSE Return([cls |-> "ESObj", child_obj |-> c.node])

-----------------------------------------------------------------------------
(* Rendering.  Every node holds a reference to the rule object it was      *)
(* built with; r is that object's content when to_sql runs.                *)

\* the items of the LIKE disjunction and of the IN list
RECURSIVE LikeItems(_, _, _)
LikeItems(ff, vs, i) ==
    IF i > Len(vs) THEN <<>>
    ELSE <<"(" \o ff \o " LIKE '%" \o PyStr(vs[i]) \o "%')">>
         \o LikeItems(ff, vs, i + 1)
RECURSIVE InItems(_, _)
InItems(vs, i) ==
    IF i > Len(vs) THEN <<>>
    ELSE <<"'" \o PyStr(vs[i]) \o "'">> \o InItems(vs, i + 1)

\* Term_to_sql with the eq2reg test ahead of the eq2like test
MutTerm_to_sql_RegFirst(n, r) ==
    IF RuleSet(r.ignore, n.field, NoFlag) THEN "(1=1)"
    ELSE IF IsList(n.value)
    THEN IF RuleSet(r.in2like, n.field, NoFlag)
         THEN "(" \o Join(" OR ", LikeItems(n.final_field, n.value.v, 1)) \o ")"
         ELSE "(" \o n.final_field \o " IN ("
              \o Join(", ", InItems(n.value.v, 1)) \o "))"
    ELSE IF IsInt(n.value)
    THEN "(CAST(" \o n.final_field \o " AS UInt8) = " \o PyStr(n.value) \o ")"
    ELSE IF RuleSet(r.eq2reg, n.field, NoItems)
    THEN "(" \o n.final_field \o " REGEXP '(?i).*" \o PyStr(n.value) \o ".*')"
    ELSE IF RuleSet(r.eq2like, n.field, NoFlag)
    THEN "(" \o n.final_field \o " LIKE '%" \o PyStr(n.value) \o "%')"
    ELSE "(" \o n.final_field \o " = '" \o PyStr(n.value) \o "')"

\* Term_to_sql with the rule lookups keyed by the renamed field
MutTerm_to_sql_FinalKey(n, r) ==
    IF RuleSet(r.ignore, n.final_field, NoFlag) THEN "(1=1)"
    ELSE IF IsList(n.value)
    THEN IF RuleSet(r.in2like, n.final_field, NoFlag)
         THEN "(" \o Join(" OR ", LikeItems(n.final_field, n.value.v, 1)) \o ")"
         ELSE "(" \o n.final_field \o " IN ("
              \o Join(", ", InItems(n.value.v, 1)) \o "))"
    ELSE IF IsInt(n.value)
    THEN "(CAST(" \o n.final_field \o " AS UInt8) = " \o PyStr(n.value) \o ")"
    ELSE IF RuleSet(r.eq2like, n.final_field, NoFlag)
    THEN "(" \o n.final_field \o " LIKE '%" \o PyStr(n.value) \o "%')"
    ELSE IF RuleSet(r.eq2reg, n.final_field, NoItems)
    THEN "(" \o n.final_field \o " REGEXP '(?i).*" \o PyStr(n.value) \o ".*')"
    ELSE "(" \o n.final_field \o " = '" \o PyStr(n.value) \o "')"

\* Term.to_sql
Term_to_sql(n, r) ==
    IF RuleSet(r.ignore, n.field, NoFlag) THEN "(1=1)"
    ELSE IF IsList(n.value)
    THEN IF RuleSet(r.in2like, n.field, NoFlag)
         THEN "(" \o Join(" OR ", LikeItems(n.final_field, n.value.v, 1)) \o ")"
         ELSE "(" \o n.final_field \o " IN ("
              \o Join(", ", InItems(n.value.v, 1)) \o "))"
    ELSE IF IsInt(n.value)
    THEN "(CAST(" \o n.final_field \o " AS UInt8) = " \o PyStr(n.value) \o ")"
    ELSE IF RuleSet(r.eq2like, n.field, NoFlag)
    THEN "(" \o n.final_field \o " LIKE '%" \o PyStr(n.value) \o "%')"
    ELSE IF RuleSet(r.eq2reg, n.field, NoItems)
    THEN "(" \o n.final_field \o " REGEXP '(?i).*" \o PyStr(n.value) \o ".*')"
    ELSE "(" \o n.final_field \o " = '" \o PyStr(n.value) \o "')"

\* Exists.to_sql
Exists_to_sql(n, r) ==
    IF RuleSet(r.nn2empty, n.field, NoFlag) THEN "(NOT " \o n.field \o " = '')"
    ELSE "(" \o n.field \o " IS NOT NULL)"

RECURSIVE to_sql(_, _)
RECURSIVE ChildSql(_, _, _)

\* [item.to_sql() for item in self.collection]
ChildSql(items, r, i) ==
    IF i > Len(items) THEN <<>>
    ELSE <<to_sql(items[i], r)>> \o ChildSql(items, r, i + 1)

\* NOT put before each child
RECURSIVE NotEach(_, _)
NotEach(parts, i) ==
    IF i > Len(parts) THEN <<>>
    ELSE <<"(NOT " \o parts[i] \o ")">> \o NotEach(parts, i + 1)

\* Bool_to_sql with must_not rendered as (NOT A) AND (NOT B)
MutBool_to_sql_NotEach(n, r) ==
    IF n.type \in {"filter", "must"}
    THEN "(" \o Join(" AND ", ChildSql(n.collection, r, 1)) \o ")"
    ELSE IF n.type = "must_not"
    THEN "(" \o Join(" AND ", NotEach(ChildSql(n.collection, r, 1), 1)) \o ")"
    ELSE "(" \o Join(" OR ", ChildSql(n.collection, r, 1)) \o ")"

\* Bool.to_sql
Bool_to_sql(n, r) ==
    IF n.type \in {"filter", "must"}
    THEN "(" \o Join(" AND ", ChildSql(n.collection, r, 1)) \o ")"
    ELSE IF n.type = "must_not"
    THEN "NOT (" \o Join(" AND ", ChildSql(n.collection, r, 1)) \o ")"
    ELSE "(" \o Join(" OR ", ChildSql(n.collection, r, 1)) \o ")"

\* to_sql of whichever class the node is
to_sql(n, r) ==
    CASE n.cls = "ESObj" -> to_sql(n.child_obj, r)
      [] n.cls = "Bool" -> Bool_to_sql(n, r)
      [] n.cls \in {"Term", "Terms"} -> Term_to_sql(n, r)
      [] n.cls = "Exists" -> Exists_to_sql(n, r)
      [] n.cls = "Nested" -> "(" \o to_sql(n.query, r) \o ")"

-----------------------------------------------------------------------------
(* The inputs: rule sets and documents.                                    *)

\* the field the documents query, and the name field_map gives it
City == "city"
Town == "town"

\* a rule entry under no field, under the queried field, under its new name
KeySets == {{}, {City}, {Town}}
FlagMaps == {[f \in S |-> TRUE] : S \in KeySets}
RegMaps == {[f \in S |-> <<"prefix", "suffix">>] : S \in KeySets}
FieldMaps == {[f \in S |-> Town] : S \in {{}, {City}}}
\* {'NY': 'LA', 1: 'one'}
CityValues == << <<JStr("NY"), JStr("LA")>>, <<JInt(1), JStr("one")>> >>
ValueMaps == {[f \in S |-> CityValues] : S \in KeySets}
EmptyMaps == {[f \in S |-> NoItems] : S \in {{City}}}

LeafRules ==
    {ESRule(i, fm, vm, l, g, n, e) :
        i \in FlagMaps, fm \in FieldMaps, vm \in ValueMaps \cup EmptyMaps,
        l \in FlagMaps, g \in RegMaps, n \in FlagMaps,
        e \in {[f \in S |-> TRUE] : S \in {{}, {City}}}}

\* the rule sets the compound documents are translated under
RenameRule ==
    ESRule(EmptyMap, [f \in {City} |-> Town], EmptyMap,
           [f \in {City} |-> TRUE], EmptyMap, EmptyMap, [f \in {City} |-> TRUE])
ValueRule ==
    ESRule(EmptyMap, EmptyMap, [f \in {City} |-> CityValues], EmptyMap,
           EmptyMap, [f \in {City} |-> TRUE], EmptyMap)
TreeRules == {DefaultRule, RenameRule, ValueRule}

Obj1(k, x) == JDict(<< <<k, x>> >>)
Obj2(k1, x1, k2, x2) == JDict(<< <<k1, x1>>, <<k2, x2>> >>)

\* sequences of at most n elements of S
SeqsUpTo(S, n) == UNION {[1..k -> S] : k \in 0..n}

\* leaf values the code supports, and values of other JSON types
Scalars == {JStr("NY"), JStr("SF"), JInt(1)}
Unsupported == {JBool(TRUE), JFloat("1.5"), JNull, Obj1("a", JInt(1))}
Lists == {JList(s) : s \in SeqsUpTo(Scalars, MaxList)}

TermDocs ==
    {Obj1(key, Obj1(City, fv)) :
        key \in {"term", "terms"},
        fv \in {Obj1("value", x) : x \in Scalars \cup Unsupported} \cup Lists}
    \cup {Obj1("term", Obj2(City, Obj1("value", JStr("NY")), "boost", JInt(2)))}
ExistsDocs == {Obj1("exists", Obj1("field", JStr(City)))}

\* objects of no known class, and payloads without their required key
BadLeaves ==
    {Obj1("match", Obj1(City, JStr("NY"))),
     JDict(<<>>),
     Obj1("term", JDict(<<>>)),
     Obj1("term", Obj1(City, Obj1("query", JStr("NY")))),
     Obj1("term", Obj1(City, JStr("NY"))),
     Obj1("exists", Obj1("name", JStr(City))),
     Obj1("bool", JDict(<<>>)),
     Obj1("bool", Obj1("minimum_should_match", JInt(1))),
     Obj1("nested", Obj1("query", Obj1("exists", Obj1("field", JStr(City))))),
     Obj1("nested", Obj1("path", JStr("addr")))}

LeafDocs == TermDocs \cup ExistsDocs \cup BadLeaves

\* the children the compound documents are made of
LeafA == Obj1("term", Obj1(City, Obj1("value", JStr("NY"))))
LeafE == Obj1("exists", Obj1("field", JStr(City)))
LeafS == Obj1("term", Obj1(City, Obj1("value", JStr("SF"))))
LeafX == Obj1("match", Obj1(City, JStr("NY")))
ChildLeaves == {LeafA, LeafE, LeafS, LeafX}

Connectives == {"filter", "must", "must_not", "should"}

\* bool documents over leaves: one connective key
Groups1 ==
    {Obj1("bool", Obj1(tp, JList(cs))) :
        tp \in Connectives, cs \in SeqsUpTo(ChildLeaves, MaxChildren)}
\* bool documents with two connective keys, in either insertion order
Groups2Keys ==
    {Obj1("bool", Obj2(tp1, JList(<<c1>>), tp2, JList(<<c2>>))) :
        tp1 \in Connectives, tp2 \in Connectives, c1 \in {LeafA, LeafX},
        c2 \in {LeafE, LeafX}}
    \ {Obj1("bool", Obj2(tp, JList(<<c1>>), tp, JList(<<c2>>))) :
        tp \in Connectives, c1 \in {LeafA, LeafX}, c2 \in {LeafE, LeafX}}
\* bool documents over a leaf and one bool document
GroupsNested ==
    {Obj1("bool", Obj1(tp, JList(cs))) :
        tp \in Connectives,
        cs \in UNION {SeqsUpTo({LeafA, g}, MaxChildren) : g \in Groups1}}
\* nested documents, and documents with several class keys
NestedDocs ==
    {Obj1("nested", Obj2("path", JStr("addr"), "query", q)) :
        q \in {LeafA, LeafE, LeafX, Obj1("bool", Obj1("should", JList(<<LeafA, LeafE>>)))}}
    \cup {Obj2("exists", Obj1("field", JStr(City)), "term", JDict(<<>>)),
          Obj2("exists", JDict(<<>>), "terms", Obj1(City, JList(<<JInt(1)>>)))}

TreeDocs == Groups1 \cup Groups2Keys \cup GroupsNested \cup NestedDocs

\* the documents and rule sets of translations that share one rule object
SharedDocs ==
    {LeafA, LeafE, LeafX,
     Obj1("terms", Obj1(City, JList(<<JStr("NY"), JInt(1)>>))),
     Obj1("term", Obj1(City, Obj1("value", JStr("SF")))),
     Obj1("bool", Obj1("must_not", JList(<<LeafA, LeafE>>)))}
SharedRules == {DefaultRule, RenameRule, ValueRule}

-----------------------------------------------------------------------------
(* The state: the rule object, and per translation its document, where it  *)
(* stands, the tree its constructor returned, the exception it raised and  *)
(* the strings its to_sql calls returned.                                  *)

Trans == DOMAIN doc

NoExc == [kind |-> "none", arg |-> NoArg]

Start(T) ==
    /\ pc = [t \in T |-> "new"]
    /\ tree = [t \in T |-> NoNode]
    /\ exc = [t \in T |-> NoExc]
    /\ sql = [t \in T |-> <<>>]

\* one translation, of any document under any rule set
Init ==
    /\ \/ doc \in [{1} -> LeafDocs] /\ rule \in LeafRules
       \/ doc \in [{1} -> TreeDocs] /\ rule \in TreeRules
    /\ Start({1})

\* two translations built with the same rule object
InitShared ==
    /\ doc \in [{1, 2} -> SharedDocs]
    /\ rule \in SharedRules
    /\ Start({1, 2})

\* Construct with a Term.parse that takes the value_map entries it uses
\* out of the rule object: the rule object is left without its value_map
MutConstruct_ConsumingValueMap(t) ==
    /\ pc[t] = "new"
    /\ LET res == ESObj_init(doc[t], rule)
       IN  IF res.exc = "none"
           THEN /\ tree' = [tree EXCEPT ![t] = res.node]
                /\ pc' = [pc EXCEPT ![t] = "built"]
                /\ exc' = exc
           ELSE /\ exc' = [exc EXCEPT ![t] = [kind |-> res.exc, arg |-> res.arg]]
                /\ pc' = [pc EXCEPT ![t] = "failed"]
                /\ tree' = tree
    /\ rule' = [rule EXCEPT !.value_map = EmptyMap]
    /\ UNCHANGED <<doc, sql>>

\* es_obj = ESObj(obj, rule)
Construct(t) ==
    /\ pc[t] = "new"
    /\ LET res == ESObj_init(doc[t], rule)
       IN  IF res.exc = "none"
           THEN /\ tree' = [tree EXCEPT ![t] = res.node]
                /\ pc' = [pc EXCEPT ![t] = "built"]
                /\ exc' = exc
           ELSE /\ exc' = [exc EXCEPT ![t] = [kind |-> res.exc, arg |-> res.arg]]
                /\ pc' = [pc EXCEPT ![t] = "failed"]
                /\ tree' = tree
    /\ UNCHANGED <<rule, doc, sql>>

\* sql = es_obj.to_sql()
Render(t) ==
    /\ pc[t] = "built"
    /\ Len(sql[t]) < MaxRenders
    /\ sql' = [sql EXCEPT ![t] = Append(@, to_sql(tree[t], rule))]
    /\ UNCHANGED <<rule, doc, pc, tree, exc>>

Next == \E t \in Trans : Construct(t) \/ Render(t)

Spec == Init /\ [][Next]_vars
SpecShared == InitShared /\ [][Next]_vars

-----------------------------------------------------------------------------
(* Vocabulary of the properties.                                           *)

\* the translation has rendered; its latest output
Rendered(t) == Len(sql[t]) > 0
Out(t) == sql[t][Len(sql[t])]

\* the document is a term/terms object: its root node is a FieldEquals node
IsTermNode(n) == n.cls = "ESObj" /\ n.child_obj.cls \in {"Term", "Terms"}
IsExistsNode(n) == n.cls = "ESObj" /\ n.child_obj.cls = "Exists"

\* a rule of the given mapping is registered under the field
Has(m, field) == field \in DOMAIN m

\* sub occurs in s at position p; sub occurs in s
OccursAt(s, sub, p) ==
    /\ p >= 1
    /\ p + Len(sub) - 1 <= Len(s)
    /\ SubSeq(s, p, p + Len(sub) - 1) = sub
Contains(s, sub) == \E p \in 1..Len(s) : OccursAt(s, sub, p)

\* the translation of a document under a rule set, run alone
Solo(d, r) ==
    LET res == ESObj_init(d, r)
    IN  IF res.exc = "none" THEN to_sql(res.node, r) ELSE "raised " \o res.exc

\* the outcome the translation has reached is that of d under r
SameOutcome(t, d, r) ==
    /\ pc[t] = "failed" => Solo(d, r) = "raised " \o exc[t].kind
    /\ \A i \in 1..Len(sql[t]) : sql[t][i] = Solo(d, r)

-----------------------------------------------------------------------------
(* C1: precedence of the rules of a FieldEquals node.                      *)

\* C1: a rendered FieldEquals node whose field has an ignore rule renders
\* as (1=1) whatever its value and its other rules are; otherwise a single
\* value renders by the first of: integer value (CAST), eq2like (LIKE),
\* eq2reg (REGEXP), plain string equality, and no later rule shows.
C1_RulePrecedence ==
    \A t \in Trans :
        (Rendered(t) /\ IsTermNode(tree[t])) =>
            LET n == tree[t].child_obj
                ff == n.final_field
                txt == PyStr(n.value)
            IN  /\ Has(rule.ignore, n.field) => Out(t) = "(1=1)"
                /\ (~Has(rule.ignore, n.field) /\ ~IsList(n.value)) =>
                     Out(t) =
                       IF IsInt(n.value)
                       THEN "(CAST(" \o ff \o " AS UInt8) = " \o txt \o ")"
                       ELSE IF Has(rule.eq2like, n.field)
                       THEN "(" \o ff \o " LIKE '%" \o txt \o "%')"
                       ELSE IF Has(rule.eq2reg, n.field)
                       THEN "(" \o ff \o " REGEXP '(?i).*" \o txt \o ".*')"
                       ELSE "(" \o ff \o " = '" \o txt \o "')"

\* a single string value whose field has both eq2like and eq2reg, rendered
C1_Witness ==
    /\ Rendered(1) /\ IsTermNode(tree[1])
    /\ tree[1].child_obj.value = JStr("NY")
    /\ ~Has(rule.ignore, City)
    /\ Has(rule.eq2like, City) /\ Has(rule.eq2reg, City)
    /\ Out(1) = "(city LIKE '%NY%')"

-----------------------------------------------------------------------------
(* C2: field_map renames the field of every predicate.                     *)

\* C2: whenever the field of a rendered FieldEquals or FieldExists node
\* has a field_map entry, the SQL names the replacement field and never the
\* original one (the (1=1) of an ignored field and the () of an empty LIKE
\* disjunction name no field at all).
C2_RenamedEverywhere ==
    \A t \in Trans :
        (/\ Rendered(t)
         /\ IsTermNode(tree[t]) \/ IsExistsNode(tree[t])
         /\ Has(rule.field_map, tree[t].child_obj.field)) =>
            \/ Out(t) \in {"(1=1)", "()"}
            \/ /\ Contains(Out(t), rule.field_map[tree[t].child_obj.field])
               /\ ~Contains(Out(t), tree[t].child_obj.field)

-----------------------------------------------------------------------------
(* C3: integers unquoted, strings quoted.                                  *)

\* position p of s lies inside a single-quoted literal
RECURSIVE QuotesBefore(_, _)
QuotesBefore(s, p) ==
    IF p <= 1 THEN 0
    ELSE QuotesBefore(s, p - 1) + (IF SubSeq(s, p - 1, p - 1) = "'" THEN 1 ELSE 0)
InQuotes(s, p) == QuotesBefore(s, p) % 2 = 1

\* the values of a FieldEquals node: the single one, or the list's elements
NodeValues(n) ==
    IF IsList(n.value) THEN {n.value.v[i] : i \in 1..Len(n.value.v)}
    ELSE {n.value}

\* C3: in the SQL of a FieldEquals node with a single value, or with a
\* sequence rendered as an IN list, every integer value stands outside
\* quotes and every string value stands inside a single-quoted literal.
C3_LiteralQuoting ==
    \A t \in Trans :
        (/\ Rendered(t) /\ IsTermNode(tree[t])
         /\ ~Has(rule.ignore, tree[t].child_obj.field)
         /\ IsList(tree[t].child_obj.value) =>
                ~Has(rule.in2like, tree[t].child_obj.field)) =>
            \A x \in NodeValues(tree[t].child_obj) :
                /\ x.t = "int" =>
                     /\ Contains(Out(t), PyStr(x))
                     /\ \A p \in 1..Len(Out(t)) :
                            OccursAt(Out(t), PyStr(x), p) => ~InQuotes(Out(t), p)
                /\ x.t = "str" =>
                     /\ Contains(Out(t), PyStr(x))
                     /\ \A p \in 1..Len(Out(t)) :
                            OccursAt(Out(t), PyStr(x), p) => InQuotes(Out(t), p)

-----------------------------------------------------------------------------
(* Reading a document as the properties speak of it.                       *)

\* the object has the key with an object (a list) as its value
HasDict(obj, k) == HasKey(obj, k) /\ GetItem(obj, k).t = "dict"
HasList(obj, k) == HasKey(obj, k) /\ GetItem(obj, k).t = "list"

\* the connective key of a bool payload that outranks the others present
PriorityKey(p) ==
    IF HasKey(p, "filter") THEN "filter"
    ELSE IF HasKey(p, "must") THEN "must"
    ELSE IF HasKey(p, "must_not") THEN "must_not"
    ELSE IF HasKey(p, "should") THEN "should"
    ELSE "none"

\* the class key of an object that outranks the others present
PriorityClass(obj) ==
    IF HasKey(obj, "bool") THEN "bool"
    ELSE IF HasKey(obj, "term") THEN "term"
    ELSE IF HasKey(obj, "terms") THEN "terms"
    ELSE IF HasKey(obj, "exists") THEN "exists"
    ELSE IF HasKey(obj, "nested") THEN "nested"
    ELSE "none"

IsBoolDoc(obj) == PriorityClass(obj) = "bool"
IsTermDoc(obj) == PriorityClass(obj) \in {"term", "terms"}

\* the sub-objects under the chosen connective key of a bool document
ChosenChildren(obj) ==
    LET p == GetItem(obj, "bool")
    IN  IF PriorityKey(p) = "none" THEN <<>> ELSE GetItem(p, PriorityKey(p)).v

-----------------------------------------------------------------------------
(* C4: rendering of a BooleanGroup.                                        *)

\* the text a connective puts around its joined children
Wrapped(tp, parts) ==
    CASE tp \in {"filter", "must"} -> "(" \o Join(" AND ", parts) \o ")"
      [] tp = "should" -> "(" \o Join(" OR ", parts) \o ")"
      [] tp = "must_not" -> "NOT (" \o Join(" AND ", parts) \o ")"

\* s is one parenthesised unit: ( ... ) or NOT ( ... )
IsUnit(s) ==
    /\ OccursAt(s, "(", 1) \/ OccursAt(s, "NOT (", 1)
    /\ OccursAt(s, ")", Len(s))

\* C4: the SQL of a bool document is the SQL of each of its children, in
\* input order, joined by AND (filter, must, must_not) or OR (should) inside
\* one pair of parentheses, must_not's behind NOT; a child that is itself a
\* bool document appears whole, with its own parentheses.
C4_GroupRendering ==
    \A t \in Trans :
        (Rendered(t) /\ IsBoolDoc(doc[t])) =>
            LET cs == ChosenChildren(doc[t])
                parts == [i \in 1..Len(cs) |-> Solo(cs[i], rule)]
            IN  /\ Out(t) = Wrapped(tree[t].child_obj.type, parts)
                /\ \A i \in 1..Len(cs) : IsUnit(parts[i])

\* a must_not over a leaf and a nested group, rendered
C4_Witness ==
    /\ Rendered(1) /\ IsBoolDoc(doc[1])
    /\ tree[1].child_obj.type = "must_not"
    /\ Len(ChosenChildren(doc[1])) = 2
    /\ IsBoolDoc(ChosenChildren(doc[1])[2])
    /\ Len(ChosenChildren(ChosenChildren(doc[1])[2])) = 2
    /\ rule = DefaultRule

-----------------------------------------------------------------------------
(* C9: the connective and the children of a built BooleanGroup.            *)

\* the node built for a bool document has the connective that outranks the
\* others in the payload and one child per sub-object under that key, in order
RECURSIVE Conforms(_, _)
Conforms(obj, n) ==
    IF ~IsBoolDoc(obj) THEN n = get_class(obj, rule).node
    ELSE LET p == GetItem(obj, "bool")
             cs == ChosenChildren(obj)
         IN  /\ n.cls = "Bool"
             /\ n.type \in Connectives
             /\ n.type = PriorityKey(p)
             /\ Len(n.collection) = Len(cs)
             /\ \A i \in 1..Len(cs) : Conforms(cs[i], n.collection[i])

\* the bool document with every connective key but the chosen one removed
OnlyChosen(obj) ==
    LET p == GetItem(obj, "bool")
    IN  Obj1("bool", Obj1(PriorityKey(p), GetItem(p, PriorityKey(p))))

\* C9: a built bool node has exactly one connective, the first of filter,
\* must, must_not, should present in its payload; its children are that
\* key's sub-objects in input order, and what stands under the other
\* connective keys changes neither the tree nor the SQL.
C9_OneConnective ==
    \A t \in Trans :
        (pc[t] = "built" /\ IsBoolDoc(doc[t])) =>
            /\ Conforms(doc[t], tree[t].child_obj)
            /\ tree[t] = ESObj_init(OnlyChosen(doc[t]), rule).node
            /\ \A i \in 1..Len(sql[t]) : sql[t][i] = Solo(OnlyChosen(doc[t]), rule)

\* a payload whose first key is should and whose second is filter, rendered
C9_Witness ==
    /\ Rendered(1) /\ IsBoolDoc(doc[1])
    /\ Len(GetItem(doc[1], "bool").v) = 2
    /\ GetItem(doc[1], "bool").v[1][1] = "should"
    /\ GetItem(doc[1], "bool").v[2][1] = "filter"
    /\ tree[1].child_obj.type = "filter"
    /\ Out(1) = "((city IS NOT NULL))"

-----------------------------------------------------------------------------
(* C5: malformed objects abort the construction.                           *)

\* a term/terms payload without a field, or whose field has no value
TermPayloadBad(p) ==
    \/ Len(p.v) = 0
    \/ /\ p.v[1][2].t # "list"
       /\ ~HasDict(p, p.v[1][1]) \/ ~HasKey(p.v[1][2], "value")

\* the payload under key k of obj lacks what its class requires
PayloadBad(obj, k) ==
    LET p == GetItem(obj, k)
    IN  CASE k = "bool" -> PriorityKey(p) = "none"
          [] k \in {"term", "terms"} -> TermPayloadBad(p)
          [] k = "exists" -> ~HasKey(p, "field")
          [] k = "nested" -> ~HasKey(p, "path") \/ ~HasKey(p, "query")
          [] OTHER -> FALSE

\* every query object of a document, wherever it stands
RECURSIVE Anywhere(_)
Anywhere(obj) ==
    {obj}
    \cup (IF HasDict(obj, "bool")
          THEN LET p == GetItem(obj, "bool")
               IN  UNION {UNION {Anywhere(GetItem(p, tp).v[i]) :
                                    i \in 1..Len(GetItem(p, tp).v)} :
                             tp \in {k \in Connectives : HasList(p, k)}}
          ELSE {})
    \cup (IF HasDict(obj, "nested") /\ HasDict(GetItem(obj, "nested"), "query")
          THEN Anywhere(GetItem(GetItem(obj, "nested"), "query"))
          ELSE {})

\* the object is malformed in one of the ways C5 lists
MalformedAnywhere(obj) ==
    \/ PriorityClass(obj) = "none"
    \/ \E k \in {"bool", "term", "terms", "exists"} :
          HasKey(obj, k) /\ PayloadBad(obj, k)

RECURSIVE Visited(_)
RECURSIVE VisitedAll(_, _)
Visited(obj) ==
    <<obj>>
    \o (CASE PriorityClass(obj) = "bool" -> VisitedAll(ChosenChildren(obj), 1)
          [] PriorityClass(obj) = "nested" /\ ~PayloadBad(obj, "nested") ->
                Visited(GetItem(GetItem(obj, "nested"), "query"))
          [] OTHER -> <<>>)
VisitedAll(cs, i) ==
    IF i > Len(cs) THEN <<>> ELSE Visited(cs[i]) \o VisitedAll(cs, i + 1)

\* the object is of no class, or the payload of its class lacks its key
Malformed(obj) ==
    \/ PriorityClass(obj) = "none"
    \/ PayloadBad(obj, PriorityClass(obj))

\* the exception a malformed object is rejected with
Rejection(obj) ==
    LET k == PriorityClass(obj)
    IN  CASE k = "none" -> [kind |-> "Exception", arg |-> obj]
          [] k = "bool" -> [kind |-> "Exception", arg |-> GetItem(obj, k)]
          [] k \in {"term", "terms"} ->
                IF Len(GetItem(obj, k).v) = 0
                THEN [kind |-> "IndexError", arg |-> GetItem(obj, k)]
                ELSE IF GetItem(obj, k).v[1][2].t = "dict"
                THEN [kind |-> "KeyError", arg |-> JStr("value")]
                ELSE [kind |-> "TypeError", arg |-> GetItem(obj, k).v[1][2]]
          [] k = "exists" -> [kind |-> "KeyError", arg |-> JStr("field")]
          [] k = "nested" ->
                IF HasKey(GetItem(obj, k), "path")
                THEN [kind |-> "KeyError", arg |-> JStr("query")]
                ELSE [kind |-> "KeyError", arg |-> JStr("path")]

FirstMalformed(d) ==
    LET vs == Visited(d)
    IN  vs[CHOOSE i \in 1..Len(vs) :
                /\ Malformed(vs[i])
                /\ \A j \in 1..(i - 1) : ~Malformed(vs[j])]

-----------------------------------------------------------------------------
(* C6: leaf values of unsupported types.                                   *)

\* the value a term/terms document gives for its field, when it gives one
HasRawValue(obj) ==
    /\ IsTermDoc(obj)
    /\ ~PayloadBad(obj, PriorityClass(obj))
    /\ GetItem(obj, PriorityClass(obj)).v[1][2].t \in {"list", "dict"}
RawValueOf(obj) ==
    LET fv == GetItem(obj, PriorityClass(obj)).v[1][2]
    IN  IF fv.t = "list" THEN fv ELSE GetItem(fv, "value")

\* a str, an int, or a list of them
Supported(x) ==
    \/ x.t \in {"str", "int"}
    \/ /\ x.t = "list"
       /\ \A i \in 1..Len(x.v) : x.v[i].t \in {"str", "int"}

\* C6: the translation of a term/terms document whose value is neither a
\* string, an integer nor a sequence of them aborts: it never gets as far
\* as emitting SQL.
C6_UnsupportedValueRejected ==
    \A t \in Trans :
        (HasRawValue(doc[t]) /\ ~Supported(RawValueOf(doc[t]))) =>
            sql[t] = <<>>

-----------------------------------------------------------------------------
(* C7: translations that share a rule object.                              *)

\* C7: no step of any translation changes the rule object, and whatever
\* the other translation built with the same rule object has done so far,
\* every outcome of a translation, each of its renderings included, is the
\* outcome of its document under the rule set when translated alone.
C7_SharedRuleSet ==
    /\ [][rule' = rule]_vars
    /\ [](\A t \in Trans : SameOutcome(t, doc[t], rule))

\* two different documents under the value_map rule, each rendered twice
C7_Witness ==
    /\ Trans = {1, 2}
    /\ rule = ValueRule
    /\ doc[1] = LeafA /\ doc[2] = Obj1("terms", Obj1(City, JList(<<JStr("NY"), JInt(1)>>)))
    /\ sql[1] = <<"(city = 'LA')", "(city = 'LA')">>
    /\ sql[2] = <<"((city LIKE '%LA%') OR (city LIKE '%one%'))",
                  "((city LIKE '%LA%') OR (city LIKE '%one%'))">>

-----------------------------------------------------------------------------
(* C8: rule lookups are keyed by the original field name.                  *)

\* the mapping without its entry under the name
Except(m, name) == [f \in DOMAIN m \ {name} |-> m[f]]
\* the rule set without any lookup rule registered under the name
WithoutRulesOn(r, name) ==
    [r EXCEPT !.ignore = Except(@, name), !.value_map = Except(@, name),
              !.eq2like = Except(@, name), !.eq2reg = Except(@, name),
              !.in2like = Except(@, name)]

\* s with every occurrence of old replaced by new
RECURSIVE Replace(_, _, _)
Replace(s, old, new) ==
    IF Len(s) < Len(old) THEN s
    ELSE IF OccursAt(s, old, 1)
    THEN new \o Replace(SubSeq(s, Len(old) + 1, Len(s)), old, new)
    ELSE SubSeq(s, 1, 1) \o Replace(SubSeq(s, 2, Len(s)), old, new)

\* the field a term/terms document asks about
FieldOf(obj) == GetItem(obj, PriorityClass(obj)).v[1][1]

\* C8: for a term/terms document whose field field_map renames, the
\* outcome is the one under the rule set stripped of every ignore,
\* value_map, eq2like, eq2reg and in2like entry under the replacement name,
\* and its SQL is the SQL the same rules give without the renaming, with
\* the replacement name in place of the original.
C8_LookupsByOriginalName ==
    \A t \in Trans :
        (/\ pc[t] # "new"
         /\ HasRawValue(doc[t])
         /\ Has(rule.field_map, FieldOf(doc[t]))) =>
            LET old == FieldOf(doc[t])
                new == rule.field_map[old]
                plain == [rule EXCEPT !.field_map = EmptyMap]
            IN  /\ SameOutcome(t, doc[t], WithoutRulesOn(rule, new))
                /\ pc[t] = "failed" => Solo(doc[t], plain) = "raised " \o exc[t].kind
                /\ \A i \in 1..Len(sql[t]) :
                       sql[t][i] = Replace(Solo(doc[t], plain), old, new)

\* eq2like under the original name and eq2reg under the replacement name:
\* the SQL is the LIKE form on the replacement name
C8_Witness ==
    /\ Rendered(1)
    /\ doc[1] = LeafA
    /\ rule.field_map = [f \in {City} |-> Town]
    /\ Has(rule.eq2like, City) /\ Has(rule.eq2reg, Town) /\ Has(rule.ignore, Town)
    /\ Out(1) = "(town LIKE '%NY%')"

-----------------------------------------------------------------------------
(* C10: value_map replaces every value, and knows no pass-through.         *)

\* the values of a raw value: itself, or the elements of the list
ValuesOf(x) == IF x.t = "list" THEN {x.v[i] : i \in 1..Len(x.v)} ELSE {x}

\* x is a key of the dict d; its image under d
IsKeyOf(d, x) == Hashable(x) /\ \E i \in 1..Len(d) : PyEq(d[i][1], x)
Image(d, x) == CHOOSE y \in {d[i][2] : i \in 1..Len(d)} :
                   \E i \in 1..Len(d) : PyEq(d[i][1], x) /\ d[i][2] = y
ImageOfRaw(d, x) ==
    IF x.t = "list" THEN JList([i \in 1..Len(x.v) |-> Image(d, x.v[i])])
    ELSE Image(d, x)

\* the term/terms document that asks for the value x of the field
TermDocOf(obj, x) ==
    Obj1(PriorityClass(obj),
         Obj1(FieldOf(obj), IF x.t = "list" THEN x ELSE Obj1("value", x)))

\* the field of the document has a non-empty value_map entry
ValueMapped(obj) ==
    /\ Has(rule.value_map, FieldOf(obj))
    /\ Len(rule.value_map[FieldOf(obj)]) > 0

\* a term/terms object with a value that its field's value_map does not know
Unmapped(obj) ==
    /\ HasRawValue(obj)
    /\ ValueMapped(obj)
    /\ \E x \in ValuesOf(RawValueOf(obj)) : ~IsKeyOf(rule.value_map[FieldOf(obj)], x)

\* C10: when the field of a term/terms document has a non-empty value_map
\* entry and every value is a key of it, the built node holds the images in
\* input order and the SQL is that of the document written with the images
\* under no value_map; a document in which the builder comes to a
\* term/terms object with a value that is not a key is never built.
C10_ValueMapStrict ==
    \A t \in Trans :
        pc[t] # "new" =>
            /\ (\E i \in 1..Len(Visited(doc[t])) : Unmapped(Visited(doc[t])[i])) =>
                    /\ pc[t] = "failed"
                    /\ tree[t] = NoNode
                    /\ sql[t] = <<>>
            /\ (HasRawValue(doc[t]) /\ ValueMapped(doc[t]) /\ ~Unmapped(doc[t])) =>
                    LET img == ImageOfRaw(rule.value_map[FieldOf(doc[t])],
                                          RawValueOf(doc[t]))
                    IN  /\ pc[t] = "built"
                        /\ tree[t].child_obj.value = img
                        /\ \A i \in 1..Len(sql[t]) :
                               sql[t][i] = Solo(TermDocOf(doc[t], img),
                                                [rule EXCEPT !.value_map = EmptyMap])

\* a two-element list whose elements both have images, rendered
C10_Witness ==
    /\ Rendered(1)
    /\ doc[1] = Obj1("terms", Obj1(City, JList(<<JStr("NY"), JInt(1)>>)))
    /\ tree[1].child_obj.value = JList(<<JStr("LA"), JStr("one")>>)
    /\ Out(1) = "(city IN ('LA', 'one'))"

=============================================================================
